---- MODULE Spec2Model ----
(***************************************************************************)
(* A model of clrescue (src/clrescue/client.py, src/clrescue/__main__.py): *)
(* the Drop item (construction, normalization, save), the paginated        *)
(* enumeration Drop[api], and the CloudAppClient facade.                   *)
(*                                                                         *)
(* Three specifications share the module:                                  *)
(*   Spec      the enumeration generator Drop.__class_getitem__            *)
(*   SpecItem  construction of one Drop (by slug, or from a record)        *)
(*   SpecSave  Drop.save on the local file system                          *)
(***************************************************************************)
EXTENDS Integers, Sequences, FiniteSets, TLC

VARIABLES
    \* ---- the remote service
    listing,    \* the listing endpoint: [nPages, perPage, counts]
    response,   \* the detail endpoint's answer for the slug looked up: [status, body]
    remote,     \* the content URI's payload size
    \* ---- the enumeration generator (Drop[api]) and its consumer
    gen,        \* [pc, page, pos, counter, demand, listed, fetched, pulls]
    yielded,    \* what the generator has yielded so far, in order
    \* ---- one Drop under construction / constructed
    drop,       \* the constructed Drop, or NoDrop
    raised,     \* the exception that left the last operation, or NoError
    applied,    \* how many times _apply ran
    \* ---- the local file system and the save() calls made
    fs,         \* [content, webloc, info]: the three files save() can touch
    clock,      \* the wall clock (epoch seconds) of the exporting process
    saves,      \* one entry per save() call, in order
    call,       \* the operation of the facade that ran last
    \* ---- the client's HTTP session, and a second enumeration of the same client
    session,    \* [auth, headers, requests]: CloudAppClient.session
    other       \* the generator the consumer is not advancing now: [gen, yielded]

vars == <<listing, response, remote, gen, yielded, drop, raised, applied, fs, clock, saves, call,
          session, other>>

-----------------------------------------------------------------------------
(* JSON values.  Each kind has its own field name, so values of different  *)
(* kinds compare unequal.  A Python str is a sequence of text tokens.      *)

Null == [t |-> "null"]
Absent == [t |-> "absent"]
StrV(s) == [t |-> "str", s |-> s]
IntV(n) == [t |-> "int", n |-> n]
BoolV(b) == [t |-> "bool", b |-> b]
DateTime(d, s) == [t |-> "datetime", day |-> d, secs |-> s]

\* dict.get(key, None): a missing key reads as None.
Get(metadata, key) == IF metadata[key] = Absent THEN Null ELSE metadata[key]

\* requests.codes.ok
codes_ok == 200

NoDrop == [t |-> "nodrop"]
NoError == [t |-> "noerror"]
\* ValueError(f"Received {status_code} attempting to retrieve drop metadata.")
RetrievalError(status) == [t |-> "ValueError", status |-> status]
\* ValueError raised by datetime.strptime
ParseError == [t |-> "ValueError", parse |-> TRUE]
IsValueError(e) == e.t = "ValueError"

-----------------------------------------------------------------------------
(* CloudAppClient.session: a requests.Session                              *)

\* HTTPDigestAuth(email, password): from the environment, or passed to authenticate
NoAuth == [t |-> "noauth"]
DigestAuth(who) == [t |-> "HTTPDigestAuth", credentials |-> who]
Credentials == { "environ", "given" }

\* The headers CloudAppClient.__init__ sets; no Authorization header.
ClientHeaders ==
    [h \in { "User-Agent", "Accept", "Content-Type", "Authorization" } |->
        CASE h = "User-Agent" -> StrV(<<"Ruby.CloudApp.API">>)
          [] h = "Authorization" -> Absent
          [] OTHER -> StrV(<<"application/json">>)]

\* CloudAppClient.authenticate(email, password)
authenticate(s, who) ==
    [s EXCEPT !.headers = [@ EXCEPT !["Authorization"] = Absent],
              !.auth = DigestAuth(who)]

\* The session after CloudAppClient.__init__: authenticated when
\* CLOUDAPP_USER is in the environment.
NewSessions ==
    { [auth |-> NoAuth, headers |-> ClientHeaders, requests |-> {}],
      authenticate([auth |-> NoAuth, headers |-> ClientHeaders, requests |-> {}], "environ") }

\* requests upper-cases the method it is given.
UpperMethod(method) ==
    CASE method = "get" -> "GET"
      [] method = "post" -> "POST"
      [] OTHER -> method

\* Session.request(method, url, ...): the request goes out; auth and headers stay.
session_request(s, method, url) ==
    [s EXCEPT !.requests = @ \cup { [method |-> UpperMethod(method), url |-> url] }]

\* A variant of get that stores an Authorization header on the session as it sends.
session_get_StoresAuthorization(s, url) ==
    [s EXCEPT !.requests = @ \cup { [method |-> "GET", url |-> url] },
              !.headers = [@ EXCEPT !["Authorization"] = StrV(<<"Digest">>)]]

\* Session.get(url, ...)
session_get(s, url) == session_request(s, "GET", url)

\* CloudAppClient.__call__(path, method='get', **params)
api(s, path, method) == session_request(s, method, path)

\* No second generator has been made.
NoOther == [gen |-> [pc |-> "none"], yielded |-> <<>>]

-----------------------------------------------------------------------------
(* urllib.parse.unquote on token sequences: "%" followed by two hex digit  *)
(* tokens is one decoded character; everything else is kept.               *)

HexPairs == { <<"2", "0">>, <<"2", "5">> }
HexChar(a, b) == IF <<a, b>> = <<"2", "0">> THEN " " ELSE "%"

RECURSIVE unquote(_)
unquote(s) ==
    IF s = <<>> THEN <<>>
    ELSE IF s[1] = "%" /\ Len(s) >= 3 /\ <<s[2], s[3]>> \in HexPairs
         THEN <<HexChar(s[2], s[3])>> \o unquote(SubSeq(s, 4, Len(s)))
         ELSE <<s[1]>> \o unquote(Tail(s))

(* datetime.strptime on token sequences.  A date text and a time text are  *)
(* single tokens; "T" and "Z" are the literal separators.                  *)

DateTexts == { "2021-05-03", "2021-05-04" }
TimeTexts == { "00:00:00", "10:15:00" }
DayOf(d) == IF d = "2021-05-03" THEN 1 ELSE 2
SecsOf(h) == IF h = "00:00:00" THEN 0 ELSE 36900

RECURSIVE rstripZ(_)
rstripZ(s) ==
    IF s # <<>> /\ s[Len(s)] = "Z" THEN rstripZ(SubSeq(s, 1, Len(s) - 1)) ELSE s

\* '%Y-%m-%dT%H:%M:%S'
MatchesFull(s) == Len(s) = 3 /\ s[1] \in DateTexts /\ s[2] = "T" /\ s[3] \in TimeTexts
\* '%Y-%m-%d'
MatchesDate(s) == Len(s) = 1 /\ s[1] \in DateTexts

\* try strptime(value.rstrip('Z'), full) except ValueError: strptime(value, date-only)
ParsesAt(s) == MatchesFull(rstripZ(s)) \/ MatchesDate(s)
ParseAt(s) ==
    IF MatchesFull(rstripZ(s))
    THEN DateTime(DayOf(rstripZ(s)[1]), SecsOf(rstripZ(s)[3]))
    ELSE DateTime(DayOf(s[1]), 0)

-----------------------------------------------------------------------------
(* Drop._json_map, Drop._process, Drop._apply                              *)

RawKeys == { "id", "slug", "created_at", "item_type", "name", "redirect_url",
             "file_name", "view_counter", "source_url", "remote_url",
             "stats_url", "content_length", "favourite", "updated_at", "extra" }

\* key.endswith('_at')
EndsWithAt == { "created_at", "updated_at" }

_json_map == <<
    [origins |-> <<"id">>,                       destination |-> "id"],
    [origins |-> <<"slug">>,                     destination |-> "slug"],
    [origins |-> <<"created_at">>,               destination |-> "uploaded"],
    [origins |-> <<"item_type">>,                destination |-> "type"],
    [origins |-> <<"name">>,                     destination |-> "name"],
    [origins |-> <<"redirect_url">>,             destination |-> "target"],
    [origins |-> <<"file_name", "name">>,        destination |-> "original"],
    [origins |-> <<"view_counter">>,             destination |-> "views"],
    [origins |-> <<"source_url", "remote_url">>, destination |-> "content"],
    [origins |-> <<"stats_url">>,                destination |-> "_stats"],
    [origins |-> <<"content_length">>,           destination |-> "size"],
    [origins |-> <<"favourite">>,                destination |-> "favourite"] >>

Attributes == { _json_map[i].destination : i \in 1..Len(_json_map) }

\* _process raises when an '_at' key holds a non-empty str neither pattern parses.
ProcessRaises(data) ==
    \E key \in EndsWithAt :
        /\ data[key].t = "str"
        /\ data[key].s # <<>>
        /\ ~ParsesAt(data[key].s)

\* One key of _process: only str values are touched.
ProcessValue(key, value) ==
    IF value.t # "str" THEN value
    ELSE IF key = "file_name" THEN StrV(unquote(value.s))
    ELSE IF key \in EndsWithAt /\ value.s # <<>> THEN ParseAt(value.s)
    ELSE value

_process(data) == [key \in RawKeys |-> ProcessValue(key, data[key])]

\* What a Drop holds before _apply: the class body gives favourite a default
\* (favourite: bool = False); every other annotated attribute is unset.
Unset == [t |-> "unset"]
ClassAttrs == [a \in Attributes |-> IF a = "favourite" THEN BoolV(FALSE) ELSE Unset]

\* A variant of the inner loop without the break: the last origin that is not None wins.
RECURSIVE FirstPresent_NoBreak(_, _, _)
FirstPresent_NoBreak(metadata, origins, i) ==
    IF i > Len(origins) THEN 0
    ELSE IF FirstPresent_NoBreak(metadata, origins, i + 1) # 0
         THEN FirstPresent_NoBreak(metadata, origins, i + 1)
    ELSE IF Get(metadata, origins[i]) # Null THEN i
    ELSE 0

\* The inner loop of _apply: the first origin whose value is not None, or 0
\* when the loop ends without break (the for's else branch).
RECURSIVE FirstPresent(_, _, _)
FirstPresent(metadata, origins, i) ==
    IF i > Len(origins) THEN 0
    ELSE IF Get(metadata, origins[i]) # Null THEN i
    ELSE FirstPresent(metadata, origins, i + 1)

\* setattr(self, destination, metadata.get(origin)) / setattr(self, destination, None)
SetAttr(attrs, metadata, entry) ==
    [attrs EXCEPT ![entry.destination] =
        IF FirstPresent(metadata, entry.origins, 1) = 0 THEN Null
        ELSE Get(metadata, entry.origins[FirstPresent(metadata, entry.origins, 1)])]

\* for origin, destination in self._json_map.items(): entries i..Len, in order
RECURSIVE ApplyMap(_, _, _)
ApplyMap(attrs, metadata, i) ==
    IF i > Len(_json_map) THEN attrs
    ELSE ApplyMap(SetAttr(attrs, metadata, _json_map[i]), metadata, i + 1)

\* A variant of _apply that keeps a snapshot taken before _process ran.
_apply_RawSnapshot(metadata) ==
    IF ProcessRaises(metadata)
    THEN [ok |-> FALSE, error |-> ParseError]
    ELSE [ok |-> TRUE,
          drop |-> [t |-> "Drop",
                    attrs |-> ApplyMap(ClassAttrs, _process(metadata), 1),
                    _data |-> metadata]]

\* Drop._apply(metadata): the Drop it leaves, or the exception _process raises.
_apply(metadata) ==
    IF ProcessRaises(metadata)
    THEN [ok |-> FALSE, error |-> ParseError]
    ELSE [ok |-> TRUE,
          drop |-> [t |-> "Drop",
                    attrs |-> ApplyMap(ClassAttrs, _process(metadata), 1),
                    _data |-> _process(metadata)]]

\* A variant of __init__ that takes only the error classes (>= 400) for failures.
Drop_init_ErrorClassOnly(resp, json) ==
    IF json THEN [applied |-> 1] @@ _apply(resp.body)
    ELSE IF resp.status >= 400
         THEN [ok |-> FALSE, error |-> RetrievalError(resp.status), applied |-> 0]
         ELSE [applied |-> 1] @@ _apply(resp.body)

\* Drop.__init__(slug, api, json): the detail fetch, the status check and _apply.
\* `resp` is the detail endpoint's answer (json = FALSE) or carries the
\* pre-fetched record as its body (json = TRUE, no fetch, no status check).
Drop_init(resp, json) ==
    IF json THEN [applied |-> 1] @@ _apply(resp.body)
    ELSE IF resp.status # codes_ok
         THEN [ok |-> FALSE, error |-> RetrievalError(resp.status), applied |-> 0]
         ELSE [applied |-> 1] @@ _apply(resp.body)

-----------------------------------------------------------------------------
(* The records the remote service may deliver (bounded).                   *)

StatusCodes == { 200, 204, 404, 500 }

GoodStamp == <<"2021-05-03", "T", "10:15:00", "Z">>
DateOnly  == <<"2021-05-04">>
BadStamp  == <<"2021-05-03", "T", "10:15:00", ".5", "Z">>

Record(id, created, type, name, redirect, file, views, source, rem, size, updated, extra) ==
    [key \in RawKeys |->
        CASE key = "id"             -> id
          [] key = "slug"           -> StrV(<<"a", "b">>)
          [] key = "created_at"     -> created
          [] key = "item_type"      -> type
          [] key = "name"           -> name
          [] key = "redirect_url"   -> redirect
          [] key = "file_name"      -> file
          [] key = "view_counter"   -> views
          [] key = "source_url"     -> source
          [] key = "remote_url"     -> rem
          [] key = "stats_url"      -> Absent
          [] key = "content_length" -> size
          [] key = "favourite"      -> BoolV(FALSE)
          [] key = "updated_at"     -> updated
          [] key = "extra"          -> extra]

ItemRecords ==
    { Record(id, created, type, name, redirect, file, views, source, rem, size, updated, extra) :
        id \in { Null, IntV(7) },
        created \in { Null, StrV(GoodStamp), StrV(DateOnly), StrV(BadStamp) },
        type \in { Null, StrV(<<"bookmark">>), StrV(<<"image">>) },
        name \in { Absent, Null, StrV(<<"n">>) },
        redirect \in { Null, StrV(<<"u">>) },
        file \in { Absent, Null, StrV(<<"a", "%", "2", "0", "b">>) },
        views \in { Null, IntV(0) },
        source \in { Absent, Null, StrV(<<"c">>) },
        rem \in { Null, StrV(<<"r">>) },
        size \in { Null, IntV(0) },
        updated \in { Absent, StrV(BadStamp) },
        extra \in { Absent, StrV(<<"x">>) } }

-----------------------------------------------------------------------------
(* SpecItem: one Drop is constructed, by slug or from a pre-fetched record *)

IdleListing == [nPages |-> 0, perPage |-> 0, counts |-> <<>>]
IdleGen == [pc |-> "idle"]
IdleFs == [t |-> "nofs"]

InitItem ==
    /\ response \in [status : StatusCodes, body : ItemRecords]
    /\ drop = NoDrop
    /\ raised = NoError
    /\ applied = 0
    /\ listing = IdleListing
    /\ gen = IdleGen
    /\ yielded = <<>>
    /\ remote = 0
    /\ fs = IdleFs
    /\ clock = 0
    /\ saves = <<>>
    /\ call = "none"
    /\ session \in NewSessions
    /\ other = NoOther

Fresh == call = "none"

\* The outcome of a construction, as the caller sees it.
Constructed(out) ==
    /\ applied' = applied + out.applied
    /\ IF out.ok
       THEN drop' = out.drop /\ raised' = NoError
       ELSE drop' = NoDrop /\ raised' = out.error

\* CloudAppClient.__getitem__(slug): return Drop(slug, self)
Lookup ==
    /\ Fresh
    /\ call' = "lookup"
    /\ Constructed(Drop_init(response, FALSE))
    /\ session' = session_get(session, "detail")
    /\ UNCHANGED <<listing, response, remote, gen, yielded, fs, clock, saves, other>>

\* Drop(record, api, json=True): construct from a pre-fetched record
FromRecord ==
    /\ Fresh
    /\ call' = "from_record"
    /\ Constructed(Drop_init(response, TRUE))
    /\ UNCHANGED <<listing, response, remote, gen, yielded, fs, clock, saves, session, other>>

NextItem == Lookup \/ FromRecord

SpecItem == InitItem /\ [][NextItem]_vars

-----------------------------------------------------------------------------
(* Drop.save on the local file system                                      *)

MaxSize == 2
MaxSaves == 2

\* A file: whether it exists, its size, what it holds, and its two timestamps.
NoFile == [exists |-> FALSE]
File(size, body, time) ==
    [exists |-> TRUE, size |-> size, body |-> body, mtime |-> time, atime |-> time]

\* bson.json_util.dumps(self._data, indent=4, sort_keys=True): the keys the
\* dict holds, in sorted order, each with its value.
SortedKeys == << "content_length", "created_at", "extra", "favourite", "file_name",
                 "id", "item_type", "name", "redirect_url", "remote_url", "slug",
                 "source_url", "stats_url", "updated_at", "view_counter" >>

RECURSIVE DumpFrom(_, _)
DumpFrom(data, i) ==
    IF i > Len(SortedKeys) THEN <<>>
    ELSE IF data[SortedKeys[i]] = Absent THEN DumpFrom(data, i + 1)
    ELSE << <<SortedKeys[i], data[SortedKeys[i]]>> >> \o DumpFrom(data, i + 1)

dumps(data) == DumpFrom(data, 1)

\* plistlib.dumps({'URL': self.target}, fmt=FMT_BINARY)
plist(target) == [t |-> "bplist", URL |-> target]

\* time.mktime(self.uploaded.timetuple())
mktime(dt) == dt.day * 86400 + dt.secs

\* The export runs after every upload time the records can carry.
StartOfExport == 3 * 86400

\* Python truth of a JSON value (`self.size and ...`).
Truthy(v) ==
    CASE v.t = "int" -> v.n # 0
      [] v.t = "str" -> v.s # <<>>
      [] v.t = "bool" -> v.b
      [] v.t = "datetime" -> TRUE
      [] OTHER -> FALSE

AttributeError == [t |-> "AttributeError"]
TypeError == [t |-> "TypeError"]
TransportError == [t |-> "RequestException"]

\* self._storage.format(self=self) reads self.uploaded.year/.month/.day
FormatRaises(d) == d.attrs["uploaded"].t # "datetime"

\* A variant of the type test against another literal.
IsBookmark_WrongLiteral(d) == d.attrs["type"] = StrV(<<"link">>)

\* self.type == 'bookmark'
IsBookmark(d) == d.attrs["type"] = StrV(<<"bookmark">>)

\* A variant of the skip check that compares the sizes whatever self.size is.
NeedsDownload_NoTruthTest(d, file) ==
    \/ ~file.exists
    \/ d.attrs["size"].t # "int"
    \/ file.size # d.attrs["size"].n

\* not target.exists() or (self.size and getsize(target) != self.size)
NeedsDownload(d, file) ==
    \/ ~file.exists
    \/ (Truthy(d.attrs["size"]) /\ file.size # d.attrs["size"].n)

\* A variant of utime that sets the access time and leaves the modification time.
utime_AccessOnly(file, atime, mtime) == [file EXCEPT !.atime = atime]

\* os.utime(target, (atime, mtime))
utime(file, atime, mtime) == [file EXCEPT !.atime = atime, !.mtime = mtime]

\* target = target.with_suffix('.webloc') for a bookmark, else the content path
TargetFile(d) == IF IsBookmark(d) THEN "webloc" ELSE "content"

\* What a content download can do: deliver all `size` bytes, or fail after n of them.
\* session.get(None) raises before any byte arrives.
Outcomes(d, size) ==
    IF d # NoDrop /\ d.attrs["content"] = Null
    THEN { [ok |-> FALSE, n |-> 0] }
    ELSE { [ok |-> TRUE, n |-> size] } \cup { [ok |-> FALSE, n |-> n] : n \in 0..size }

\* The last two lines of save: mktime(self.uploaded.timetuple()); utime(target, ...)
SetTimes(d, files, downloaded) ==
    IF d.attrs["uploaded"].t # "datetime"
    THEN [fs |-> files, raised |-> AttributeError, downloaded |-> downloaded]
    ELSE [fs |-> [files EXCEPT ![TargetFile(d)] =
                    utime(@, mktime(d.attrs["uploaded"]), mktime(d.attrs["uploaded"]))],
          raised |-> NoError, downloaded |-> downloaded]

\* A variant of save that writes the .info.json last, after the content.
save_InfoLast(d, files, now, explicit, outcome) ==
    IF ~explicit /\ FormatRaises(d)
    THEN [fs |-> files, raised |-> AttributeError, downloaded |-> FALSE]
    ELSE
      LET info == File(Len(dumps(d._data)), dumps(d._data), now)
          done == IF IsBookmark(d)
                  THEN IF d.attrs["target"].t # "str"
                       THEN [fs |-> files, raised |-> TypeError, downloaded |-> FALSE]
                       ELSE SetTimes(d, [files EXCEPT !.webloc =
                                            File(1, plist(d.attrs["target"]), now)], FALSE)
                  ELSE IF NeedsDownload(d, files.content)
                       THEN IF outcome.ok
                            THEN SetTimes(d, [files EXCEPT !.content =
                                                 File(outcome.n, "bytes", now)], TRUE)
                            ELSE [fs |-> [files EXCEPT !.content = File(outcome.n, "bytes", now)],
                                  raised |-> TransportError, downloaded |-> TRUE]
                       ELSE SetTimes(d, files, FALSE)
      IN  IF done.raised = NoError
          THEN [done EXCEPT !.fs = [done.fs EXCEPT !.info = info]]
          ELSE done

\* Drop.save(path): `explicit` says a path was passed, `now` is the wall
\* clock, `outcome` what the content download does if it is attempted.
save(d, files, now, explicit, outcome) ==
    IF ~explicit /\ FormatRaises(d)
    THEN [fs |-> files, raised |-> AttributeError, downloaded |-> FALSE]
    ELSE
      LET withInfo == [files EXCEPT !.info = File(Len(dumps(d._data)), dumps(d._data), now)]
      IN  IF IsBookmark(d)
          THEN IF d.attrs["target"].t # "str"
               THEN [fs |-> withInfo, raised |-> TypeError, downloaded |-> FALSE]
               ELSE SetTimes(d, [withInfo EXCEPT !.webloc =
                                    File(1, plist(d.attrs["target"]), now)], FALSE)
          ELSE IF NeedsDownload(d, withInfo.content)
               THEN IF outcome.ok
                    THEN SetTimes(d, [withInfo EXCEPT !.content =
                                         File(outcome.n, "bytes", now)], TRUE)
                    ELSE [fs |-> [withInfo EXCEPT !.content = File(outcome.n, "bytes", now)],
                          raised |-> TransportError, downloaded |-> TRUE]
               ELSE SetTimes(d, withInfo, FALSE)

\* The records a saved item is built from.
SaveRecords ==
    { Record(IntV(7), created, type, StrV(<<"n">>), redirect, Absent, IntV(0),
             source, Null, size, Absent, Absent) :
        created \in { Null, StrV(GoodStamp), StrV(DateOnly) },
        type \in { StrV(<<"bookmark">>), StrV(<<"image">>) },
        redirect \in { Null, StrV(<<"u">>) },
        source \in { Null, StrV(<<"c">>) },
        size \in { Null } \cup { IntV(n) : n \in 0..MaxSize } }

\* What an earlier, possibly interrupted, export may have left at the destination.
EarlierTime == StartOfExport - 1
EarlierFiles ==
    [content : { NoFile } \cup { File(n, "bytes", EarlierTime) : n \in 0..MaxSize },
     webloc : { NoFile },
     info : { NoFile, File(0, <<>>, EarlierTime) }]

InitSave ==
    /\ response \in [status : { codes_ok }, body : SaveRecords]
    /\ remote \in 0..MaxSize
    /\ fs \in EarlierFiles
    /\ clock = StartOfExport
    /\ saves = <<>>
    /\ drop = NoDrop
    /\ raised = NoError
    /\ applied = 0
    /\ call = "none"
    /\ listing = IdleListing
    /\ gen = IdleGen
    /\ yielded = <<>>
    /\ session \in NewSessions
    /\ other = NoOther

\* drop.save() / drop.save(path), as the export driver calls it on a Drop it holds
Save ==
    /\ drop # NoDrop
    /\ Len(saves) < MaxSaves
    /\ \E explicit \in BOOLEAN, outcome \in Outcomes(drop, remote) :
          LET r == save(drop, fs, clock, explicit, outcome)
          IN  /\ fs' = r.fs
              /\ raised' = r.raised
              /\ saves' = Append(saves, [explicit |-> explicit, raised |-> r.raised,
                                         downloaded |-> r.downloaded,
                                         before |-> fs, after |-> r.fs])
              /\ session' = IF r.downloaded THEN session_get(session, "content") ELSE session
    /\ clock' = clock + 1
    /\ call' = "save"
    /\ UNCHANGED <<listing, response, remote, gen, yielded, drop, applied, other>>

NextSave == Lookup \/ Save

SpecSave == InitSave /\ [][NextSave]_vars

-----------------------------------------------------------------------------
(* The enumeration: CloudAppClient.__iter__ and Drop.__class_getitem__     *)

MaxPages == 3
MaxPerPage == 2

\* The listing endpoint serves nPages pages of perPage records each; page p
\* links to page p + 1, the last page carries no next_url.  counts[p] is
\* the meta.count page p reports.
Listings ==
    UNION { [nPages : { n }, perPage : { k }, counts : [1..n -> { n * k, n * k + 1 }]] :
            n \in 1..MaxPages, k \in 0..MaxPerPage }

\* The slug of the record at position `pos` of page `page`: its 1-based
\* position in the full result set.
SlugAt(l, page, pos) == (page - 1) * l.perPage + pos

\* One record of a page's data array.
ListingRecord(slug) == [t |-> "record", slug |-> slug]

\* result.json() of listing page p: {data, links: {next_url: {href}}, meta: {count}}
PageResponse(l, p) ==
    [data |-> [pos \in 1..l.perPage |-> ListingRecord(SlugAt(l, p, pos))],
     next |-> IF p < l.nPages THEN p + 1 ELSE 0,
     count |-> l.counts[p]]

\* result.get('links', {}).get('next_url', {}).get('href', None) is truthy
HasNext(page) == page.next # 0

\* What the detail endpoint may answer for a slug: the item, an error
\* status, or an item whose created_at no pattern parses.
DetailBody(slug, stamp) ==
    Record(IntV(slug), StrV(stamp), StrV(<<"image">>), StrV(<<"n">>), Null, Absent,
           IntV(0), StrV(<<"c">>), Null, IntV(1), Absent, Absent)

DetailResponses(slug) ==
    { [status |-> codes_ok, body |-> DetailBody(slug, GoodStamp)],
      [status |-> 404, body |-> DetailBody(slug, GoodStamp)],
      [status |-> codes_ok, body |-> DetailBody(slug, BadStamp)] }

\* A variant that reads meta.count once, from the first page.
Annotate_FirstPageCount(l, d, counter, page) ==
    [t |-> "Drop", id |-> d.attrs["id"], index |-> counter,
     total |-> PageResponse(l, 1).count]

\* A variant that numbers a Drop by the position of its record in the result set.
Annotate_PositionAsIndex(l, d, counter, page) ==
    [t |-> "Drop", id |-> d.attrs["id"], index |-> d.attrs["id"].n - 1,
     total |-> PageResponse(l, page).count]

\* drop.index = next(counter); drop.total = result['meta']['count']
\* (of the Drop the entry keeps its id and the two annotations)
Annotate(l, d, counter, page) ==
    [t |-> "Drop", id |-> d.attrs["id"], index |-> counter,
     total |-> PageResponse(l, page).count]

NoGen == [pc |-> "none"]

Init ==
    /\ listing \in Listings
    /\ gen = NoGen
    /\ yielded = <<>>
    /\ response = [status |-> codes_ok, body |-> DetailBody(0, GoodStamp)]
    /\ drop = NoDrop
    /\ raised = NoError
    /\ applied = 0
    /\ call = "none"
    /\ remote = 0
    /\ fs = IdleFs
    /\ clock = 0
    /\ saves = <<>>
    /\ session \in NewSessions
    /\ other = NoOther

\* CloudAppClient.__iter__: return Drop[self].  The generator object is
\* made; none of its body has run.
Iterate ==
    /\ gen.pc = "none"
    /\ gen' = [pc |-> "created", page |-> 0, pos |-> 0, counter |-> 0,
               demand |-> FALSE, listed |-> 0, fetched |-> 0, pulls |-> 0]
    /\ call' = "iter"
    /\ UNCHANGED <<listing, response, remote, yielded, drop, raised, applied, fs, clock, saves, session, other>>

\* The consumer (the for loop of main) asks for the next element.
Pull ==
    /\ gen.pc \in { "created", "for" }
    /\ ~gen.demand
    /\ gen' = [gen EXCEPT !.demand = TRUE, !.pulls = @ + 1]
    /\ UNCHANGED <<listing, response, remote, yielded, drop, raised, applied, call, fs, clock, saves, session, other>>

\* A variant that runs the first listing request when the generator is made.
FirstPage_Eager ==
    /\ gen.pc = "created"
    /\ gen' = [gen EXCEPT !.pc = "while", !.page = 1, !.counter = 0, !.listed = 1]
    /\ session' = api(session, "/v3/items", "get")
    /\ UNCHANGED <<listing, response, remote, yielded, drop, raised, applied, call, fs, clock, saves, other>>

\* result = api('/v3/items').json(); counter = count()
FirstPage ==
    /\ gen.pc = "created" /\ gen.demand
    /\ gen' = [gen EXCEPT !.pc = "while", !.page = 1, !.counter = 0, !.listed = 1]
    /\ session' = api(session, "/v3/items", "get")
    /\ UNCHANGED <<listing, response, remote, yielded, drop, raised, applied, call, fs, clock, saves, other>>

\* while result.get('links', {}).get('next_url', {}).get('href', None):
\* enter the for loop over result['data'], or fall off the end (StopIteration).
WhileTest ==
    /\ gen.pc = "while" /\ gen.demand
    /\ IF HasNext(PageResponse(listing, gen.page))
       THEN gen' = [gen EXCEPT !.pc = "for", !.pos = 1]
       ELSE gen' = [gen EXCEPT !.pc = "done", !.demand = FALSE]
    /\ UNCHANGED <<listing, response, remote, yielded, drop, raised, applied, call, fs, clock, saves, session, other>>

\* One turn of `for record in result['data']`: Drop(record['slug'], api);
\* on ValueError yield the record, else annotate the Drop and yield it.
Visit ==
    /\ gen.pc = "for" /\ gen.demand
    /\ gen.pos <= Len(PageResponse(listing, gen.page).data)
    /\ LET record == PageResponse(listing, gen.page).data[gen.pos]
       IN  \E resp \in DetailResponses(record.slug) :
             LET out == Drop_init(resp, FALSE)
             IN  /\ response' = resp
                 /\ applied' = applied + out.applied
                 /\ IF out.ok
                    THEN /\ drop' = out.drop
                         /\ raised' = NoError
                         /\ yielded' = Append(yielded,
                               [out |-> Annotate(listing, out.drop, gen.counter, gen.page),
                                status |-> resp.status, page |-> gen.page])
                         /\ gen' = [gen EXCEPT !.pos = @ + 1, !.counter = @ + 1,
                                               !.demand = FALSE, !.fetched = @ + 1]
                    ELSE /\ IsValueError(out.error)
                         /\ drop' = NoDrop
                         /\ raised' = NoError
                         /\ yielded' = Append(yielded,
                               [out |-> record, status |-> resp.status, page |-> gen.page])
                         /\ gen' = [gen EXCEPT !.pos = @ + 1, !.demand = FALSE,
                                               !.fetched = @ + 1]
    /\ session' = session_get(session, "detail")
    /\ UNCHANGED <<listing, remote, call, fs, clock, saves, other>>

\* The for loop is exhausted:
\* result = api.session.get(result['links']['next_url']['href']).json()
NextPage ==
    /\ gen.pc = "for" /\ gen.demand
    /\ gen.pos > Len(PageResponse(listing, gen.page).data)
    /\ gen' = [gen EXCEPT !.pc = "while", !.page = PageResponse(listing, gen.page).next,
                          !.listed = @ + 1]
    /\ session' = session_get(session, "next_url")
    /\ UNCHANGED <<listing, response, remote, yielded, drop, raised, applied, call, fs, clock, saves, other>>

Next == Iterate \/ Pull \/ FirstPage \/ WhileTest \/ Visit \/ NextPage

Spec == Init /\ [][Next]_vars

-----------------------------------------------------------------------------
(* The client used freely: authenticate, client[slug], iteration and save  *)

\* The largest listing (pages times records per page) explored where the
\* enumeration is combined with other operations.
MaxListed == 4

\* CloudAppClient.authenticate(email, password)
Authenticate ==
    /\ \E who \in Credentials : session' = authenticate(session, who)
    /\ UNCHANGED <<listing, response, remote, gen, yielded, drop, raised, applied, fs, clock,
                   saves, call, other>>

\* fs stands for the destination of the Drop being saved.
InitClient ==
    /\ listing \in Listings
    /\ listing.nPages * listing.perPage <= MaxListed
    /\ gen = NoGen
    /\ yielded = <<>>
    /\ response = [status |-> codes_ok, body |-> DetailBody(0, GoodStamp)]
    /\ drop = NoDrop
    /\ raised = NoError
    /\ applied = 0
    /\ call = "none"
    /\ remote = 1
    /\ fs = [content |-> NoFile, webloc |-> NoFile, info |-> NoFile]
    /\ clock = StartOfExport
    /\ saves = <<>>
    /\ session \in NewSessions
    /\ other = NoOther

NextClient ==
    \/ Authenticate
    \/ Lookup
    \/ Iterate \/ Pull \/ FirstPage \/ WhileTest \/ Visit \/ NextPage
    \/ Save

SpecClient == InitClient /\ [][NextClient]_vars

-----------------------------------------------------------------------------
(* Two enumerations of one client, advanced in any interleaving            *)


\* A variant in which the index counter lives outside the generator frame
\* (one count() for the class), so the generator resumed continues the
\* numbering of the one left.
Switch_SharedCounter ==
    /\ IF gen.pc = "none" THEN TRUE ELSE ~gen.demand
    /\ gen' = IF gen.pc # "none" /\ other.gen.pc # "none"
              THEN [other.gen EXCEPT !.counter = gen.counter]
              ELSE other.gen
    /\ yielded' = other.yielded
    /\ other' = [gen |-> gen, yielded |-> yielded]
    /\ UNCHANGED <<listing, response, remote, drop, raised, applied, fs, clock, saves, call,
                   session>>

\* The consumer turns to its other generator.  Each call of Drop[api] has
\* its own frame (result, counter, the position in result['data']); a
\* generator only runs inside next(), so the turn comes between two next().
Switch ==
    /\ IF gen.pc = "none" THEN TRUE ELSE ~gen.demand
    /\ gen' = other.gen
    /\ yielded' = other.yielded
    /\ other' = [gen |-> gen, yielded |-> yielded]
    /\ UNCHANGED <<listing, response, remote, drop, raised, applied, fs, clock, saves, call,
                   session>>

InitTwo ==
    /\ Init
    /\ listing.nPages * listing.perPage <= MaxListed

NextTwo == Next \/ Switch

SpecTwo == InitTwo /\ [][NextTwo]_vars

\* ---- properties of the enumeration

\* The number of records of the full result set, and whether the
\* enumeration has ended.
TotalRecords == listing.nPages * listing.perPage
Exhausted == gen.pc = "done"
IsDrop(e) == e.out.t = "Drop"
AllFetchesSucceeded == \A i \in 1..Len(yielded) : IsDrop(yielded[i])

\* C1: an enumeration of N pages of K records whose detail fetches all
\* succeed yields exactly N*K results, and the Drops carry the indexes
\* 0..N*K-1 in order, with no gap and no reset at a page boundary.
C1_YieldsEveryRecordWithIndex ==
    (Exhausted /\ AllFetchesSucceeded) =>
        /\ Len(yielded) = TotalRecords
        /\ \A i \in 1..Len(yielded) : yielded[i].out.index = i - 1

\* C2: every Drop the enumeration yields has total equal to the meta.count
\* of the listing page whose data array held its record.
C2_TotalIsCountOfOwnPage ==
    \A i \in 1..Len(yielded) :
        IsDrop(yielded[i]) =>
            \E p \in 1..listing.nPages, pos \in 1..listing.perPage :
                /\ yielded[i].out.id = IntV(SlugAt(listing, p, pos))
                /\ yielded[i].out.total = listing.counts[p]

\* C2 witness: a Drop of the second page carries the second page's count,
\* which differs from the first page's.
C2_Witness ==
    /\ listing.nPages >= 3
    /\ listing.counts[1] # listing.counts[2]
    /\ \E i \in 1..Len(yielded) :
          /\ IsDrop(yielded[i])
          /\ yielded[i].page = 2
          /\ yielded[i].out.total = listing.counts[2]
          /\ yielded[i].out.total # listing.counts[1]

\* C3: when the detail fetch of a record answers a non-OK status the raw
\* listing record is yielded unchanged in its place, and every later
\* record of the same page and of all following pages is still yielded, in
\* server order.
C3_DegradedRecordDoesNotStopEnumeration ==
    /\ \A i \in 1..Len(yielded) :
          yielded[i].status # codes_ok => yielded[i].out \in
              { PageResponse(listing, p).data[pos] :
                    p \in { yielded[i].page }, pos \in 1..listing.perPage }
    /\ (Exhausted /\ \E i \in 1..Len(yielded) : yielded[i].status # codes_ok) =>
          /\ Len(yielded) = TotalRecords
          /\ \A i \in 1..Len(yielded) :
                \/ yielded[i].out = ListingRecord(i)
                \/ IsDrop(yielded[i]) /\ yielded[i].out.id = IntV(i)

\* C11: only a non-OK detail status is turned into a raw-record yield; a
\* timestamp parse failure on a detail response with status OK is not
\* recovered: no raw record is ever yielded for a fetch that answered OK.
C11_ParseFailureIsNotDegraded ==
    \A i \in 1..Len(yielded) :
        yielded[i].out.t = "record" => yielded[i].status # codes_ok

\* The records of listing page p, as positions of the full result set.
PositionsOf(p) == { SlugAt(listing, p, pos) : pos \in 1..listing.perPage }
YieldedPositions ==
    { IF IsDrop(yielded[i]) THEN yielded[i].out.id.n ELSE yielded[i].out.slug :
        i \in 1..Len(yielded) }

\* C12 (safety part): exhaustion is reached only after the records of a
\* page that exposes no next-page link have been yielded, and no page is
\* requested after such a page.
C12_ExhaustedOnlyAfterLastPageYielded ==
    Exhausted =>
        /\ ~HasNext(PageResponse(listing, gen.page))
        /\ PositionsOf(gen.page) \subseteq YieldedPositions
        /\ gen.listed = gen.page

\* C13: the enumeration is pull-based: no listing request before the first
\* request of the consumer; never more detail fetches than requests, and
\* exactly as many as elements delivered (so at most m after m elements); page
\* p + 1 is requested only when every record of pages 1..p has been yielded
\* and the consumer has asked for one more.
C13_PullBased ==
    gen.pc # "none" =>
        /\ gen.pulls = 0 => (gen.listed = 0 /\ gen.fetched = 0)
        /\ gen.fetched <= gen.pulls
        /\ gen.fetched = Len(yielded)
        /\ gen.listed >= 2 =>
              /\ Len(yielded) >= (gen.listed - 1) * listing.perPage
              /\ gen.pulls > (gen.listed - 1) * listing.perPage
        /\ gen.pulls <= Len(yielded) + 1

\* C13 witness: the consumer stopped after one element of a two-record
\* page: one detail fetch, one listing request, the second page not asked for.
C13_Witness ==
    /\ listing.nPages >= 2 /\ listing.perPage = 2
    /\ gen.pc = "for" /\ ~gen.demand
    /\ gen.pulls = 1
    /\ Len(yielded) = 1
    /\ gen.fetched = 1
    /\ gen.listed = 1

\* C14: the index of every Drop yielded equals the 0-based position of its
\* record in the full result set, also after degraded records.
C14_IndexIsPositionInResultSet ==
    \A i \in 1..Len(yielded) :
        IsDrop(yielded[i]) => yielded[i].out.index = yielded[i].out.id.n - 1

\* How many of the first n yields are Drops.
RECURSIVE DropsAmong(_)
DropsAmong(n) ==
    IF n = 0 THEN 0
    ELSE DropsAmong(n - 1) + (IF IsDrop(yielded[n]) THEN 1 ELSE 0)

\* C20: degraded records consume no index: the Drops yielded carry the
\* indexes 0, 1, ..., M-1 in yield order, whatever fetches failed.
C20_DropsAreNumberedConsecutively ==
    \A i \in 1..Len(yielded) :
        IsDrop(yielded[i]) => yielded[i].out.index = DropsAmong(i - 1)

\* C20 witness: a raw record came first and the Drop after it has index 0.
C20_Witness ==
    /\ Len(yielded) >= 2
    /\ ~IsDrop(yielded[1])
    /\ IsDrop(yielded[2])
    /\ yielded[2].out.index = 0

-----------------------------------------------------------------------------
(* Properties of construction and normalization (SpecItem)                 *)

Min(S) == CHOOSE x \in S : \A y \in S : x <= y

\* The candidates of a mapping entry that the raw record holds with a non-null value.
PresentIn(body, origins) ==
    { i \in 1..Len(origins) : body[origins[i]] \notin { Null, Absent } }

MappedKeys == UNION { { _json_map[i].origins[j] : j \in 1..Len(_json_map[i].origins) } :
                      i \in 1..Len(_json_map) }

\* The raw record with every key the mapping table does not name removed.
OnlyMapped(body) == [key \in RawKeys |-> IF key \in MappedKeys THEN body[key] ELSE Absent]

\* C7: after a successful normalization every canonical attribute of the
\* mapping table is set; an attribute with candidates takes the value held
\* under the first candidate, in declared order, that is present and non-null
\* in the record (the raw value itself unless pre-processing transforms that
\* key), and null when no candidate is; keys outside the table change nothing.
C7_FirstPresentCandidateWins ==
    drop # NoDrop =>
        /\ DOMAIN drop.attrs = Attributes
        /\ \A i \in 1..Len(_json_map) :
              LET origins == _json_map[i].origins
                  present == PresentIn(response.body, origins)
                  value == drop.attrs[_json_map[i].destination]
              IN  /\ value # Unset
                  /\ present = {} => value = Null
                  /\ present # {} =>
                        /\ value = drop._data[origins[Min(present)]]
                        /\ origins[Min(present)] \notin { "file_name", "created_at" }
                              => value = response.body[origins[Min(present)]]
        /\ drop.attrs = _apply(OnlyMapped(response.body)).drop.attrs

\* C7 witness: the second candidate wins (file_name null, name present), an
\* attribute falls to null, and the record carries an unmapped field.
C7_Witness ==
    /\ drop # NoDrop
    /\ response.body["file_name"] = Null
    /\ response.body["name"] = StrV(<<"n">>)
    /\ drop.attrs["original"] = StrV(<<"n">>)
    /\ response.body["source_url"] = Absent
    /\ response.body["remote_url"] = Null
    /\ drop.attrs["content"] = Null
    /\ response.body["extra"] # Absent

\* C8: a lookup by identifier whose detail fetch answers any status other
\* than OK raises the retrieval error carrying that status; no Drop is
\* returned and _apply never runs.
C8_LookupRaisesOnNonOk ==
    (call = "lookup" /\ response.status # codes_ok) =>
        /\ raised = RetrievalError(response.status)
        /\ drop = NoDrop
        /\ applied = 0

\* C8 witness: a lookup answered 204 (a success class other than OK) has raised.
C8_Witness ==
    /\ call = "lookup"
    /\ response.status = 204
    /\ raised = RetrievalError(204)
    /\ ~ProcessRaises(response.body)

\* C9: every constructed Drop has exactly one of target and content
\* non-null: target for a bookmark, content for every other type.
C9_ExactlyOneLocation ==
    drop # NoDrop =>
        IF IsBookmark(drop)
        THEN drop.attrs["target"] # Null /\ drop.attrs["content"] = Null
        ELSE drop.attrs["content"] # Null /\ drop.attrs["target"] = Null

-----------------------------------------------------------------------------
(* Properties of save (SpecSave)                                           *)

TypeIs(name) == drop # NoDrop /\ drop.attrs["type"] = StrV(<<name>>)
DeclaredSize == drop.attrs["size"]
UploadedEpoch == mktime(drop.attrs["uploaded"])

\* The remote content has the declared size (any content when none is declared).
RemoteAsDeclared == DeclaredSize = Null \/ DeclaredSize = IntV(remote)

\* The save reached the type test: the path was given or could be derived.
ReachedTypeTest(i) == saves[i].explicit \/ drop.attrs["uploaded"].t = "datetime"

\* C4: for a non-bookmark item whose remote content has the declared size,
\* a save that returned normally followed by a second save performs no
\* content download in the second call, leaves the content file with the
\* same size, and both calls write the same .info.json.
C4_ResaveDoesNotDownloadAgain ==
    \A i \in 1..(Len(saves) - 1) :
        (~TypeIs("bookmark") /\ saves[i].raised = NoError /\ RemoteAsDeclared) =>
            /\ ~saves[i + 1].downloaded
            /\ saves[i + 1].after.content.exists
            /\ saves[i + 1].after.content.size = saves[i].after.content.size
            /\ saves[i + 1].after.info.exists
            /\ saves[i + 1].after.info.body = saves[i].after.info.body

\* C4 witness: the first save downloaded 2 declared bytes, the second skipped.
C4_Witness ==
    /\ Len(saves) = 2
    /\ TypeIs("image")
    /\ DeclaredSize = IntV(2) /\ remote = 2
    /\ saves[1].raised = NoError /\ saves[1].downloaded
    /\ saves[2].raised = NoError /\ ~saves[2].downloaded
    /\ fs.content.size = 2

\* C5: save of a bookmark issues no content download and leaves the content
\* path alone, and when it returns normally the .webloc file holds
\* {URL: target}; save of any other type writes no .webloc file, attempts
\* the content download when the content file is absent, and when it
\* returns normally from that download the content file holds the payload.
C5_BookmarkWeblocElseContent ==
    \A i \in 1..Len(saves) :
        IF TypeIs("bookmark")
        THEN /\ ~saves[i].downloaded
             /\ saves[i].after.content = saves[i].before.content
             /\ saves[i].raised = NoError =>
                   /\ saves[i].after.webloc.exists
                   /\ saves[i].after.webloc.body = [t |-> "bplist", URL |-> drop.attrs["target"]]
        ELSE /\ saves[i].after.webloc = NoFile
             /\ (ReachedTypeTest(i) /\ ~saves[i].before.content.exists) => saves[i].downloaded
             /\ (saves[i].raised = NoError /\ ~saves[i].before.content.exists) =>
                   /\ saves[i].after.content.exists
                   /\ saves[i].after.content.size = remote

\* C5 witness: a bookmark was saved: the .webloc is there, no content file, no download.
C5_Witness ==
    /\ Len(saves) = 1
    /\ TypeIs("bookmark")
    /\ saves[1].raised = NoError
    /\ fs.webloc.exists
    /\ fs.webloc.body.URL = StrV(<<"u">>)
    /\ ~fs.content.exists
    /\ ~saves[1].downloaded

\* C6: for a non-bookmark item save downloads exactly when the content file
\* is absent or its on-disk size differs from the declared size, for every
\* declared size including 0; with no declared size, only when it is absent.
C6_DownloadsExactlyOnAbsentOrSizeMismatch ==
    \A i \in 1..Len(saves) :
        (~TypeIs("bookmark") /\ ReachedTypeTest(i)) =>
            (saves[i].downloaded <=>
                \/ ~saves[i].before.content.exists
                \/ /\ DeclaredSize # Null
                   /\ saves[i].before.content.size # DeclaredSize.n)

\* C10: after every save that returns normally the file written for the
\* item (.webloc for a bookmark, the content file otherwise) has both its
\* modification and its access time equal to the upload time, whether the
\* content was downloaded in the call or the download was skipped.
C10_TimesAreUploadTime ==
    \A i \in 1..Len(saves) :
        saves[i].raised = NoError =>
            LET written == IF TypeIs("bookmark")
                           THEN saves[i].after.webloc ELSE saves[i].after.content
            IN  /\ written.exists
                /\ written.mtime = UploadedEpoch
                /\ written.atime = UploadedEpoch

\* C10 witness: the download was skipped for a file an earlier export left,
\* and the file carries the upload time all the same.
C10_Witness ==
    /\ Len(saves) = 1
    /\ TypeIs("image")
    /\ saves[1].raised = NoError
    /\ ~saves[1].downloaded
    /\ saves[1].before.content.mtime = EarlierTime
    /\ fs.content.mtime = UploadedEpoch
    /\ UploadedEpoch < EarlierTime

\* The wall clock at the i-th save, and the snapshot save writes for the Drop.
TimeOfSave(i) == StartOfExport + i - 1
Snapshot == dumps(drop._data)

C19_FailedDownloadIsRetried ==
    \A i \in 1..(Len(saves) - 1) :
        (/\ ~TypeIs("bookmark")
         /\ saves[i].downloaded /\ saves[i].raised = TransportError
         /\ ReachedTypeTest(i + 1)) =>
            saves[i + 1].downloaded

-----------------------------------------------------------------------------
(* The typed fields and the snapshot (SpecItem)                            *)

\* C17: every mapped attribute of a constructed Drop that is non-null is
\* the very value _data holds under the winning raw key (the first
\* candidate that is non-null in _data), the transformed ones included: a
\* parsed created_at is a datetime in both, a decoded file_name is decoded in both.
C17_AttributesAgreeWithSnapshot ==
    drop # NoDrop =>
        /\ \A i \in 1..Len(_json_map) :
              LET origins == _json_map[i].origins
                  value == drop.attrs[_json_map[i].destination]
              IN  value # Null =>
                    \E j \in 1..Len(origins) :
                        /\ drop._data[origins[j]] = value
                        /\ \A k \in 1..(j - 1) : drop._data[origins[k]] \in { Null, Absent }
        /\ drop.attrs["uploaded"] \notin { Null, StrV(<<>>) } =>
              /\ drop.attrs["uploaded"].t = "datetime"
              /\ drop._data["created_at"] = drop.attrs["uploaded"]
        /\ response.body["file_name"].t = "str" =>
              drop._data["file_name"] = drop.attrs["original"]

\* C17 witness: a percent-encoded file_name and a textual created_at were
\* transformed, and the Drop and its snapshot hold the transformed values.
C17_Witness ==
    /\ drop # NoDrop
    /\ response.body["file_name"] = StrV(<<"a", "%", "2", "0", "b">>)
    /\ drop.attrs["original"] = StrV(<<"a", " ", "b">>)
    /\ drop._data["file_name"] = StrV(<<"a", " ", "b">>)
    /\ response.body["created_at"] = StrV(GoodStamp)
    /\ drop._data["created_at"] = DateTime(1, 36900)

-----------------------------------------------------------------------------
(* The session (SpecClient)                                                *)

\* C16: construction, enumeration and save only issue GET requests through
\* the session, and no step other than authenticate changes the session's
\* auth or its headers.
C16_OnlyAuthenticateChangesSession ==
    /\ [](\A r \in session.requests : r.method = "GET")
    /\ [][(session'.auth # session.auth \/ session'.headers # session.headers)
             => Authenticate]_vars

\* C16 witness: a listing, a detail fetch and a content download have gone
\* through a session that is as __init__ left it.
C16_Witness ==
    /\ { [method |-> "GET", url |-> "/v3/items"],
         [method |-> "GET", url |-> "detail"],
         [method |-> "GET", url |-> "content"] } \subseteq session.requests
    /\ session.auth = NoAuth
    /\ session.headers = ClientHeaders
    /\ Len(yielded) >= 1
    /\ Len(saves) >= 1

-----------------------------------------------------------------------------
(* Two enumerations (SpecTwo)                                              *)

RECURSIVE DropsBefore(_, _)
DropsBefore(y, n) ==
    IF n <= 1 THEN 0
    ELSE DropsBefore(y, n - 1) + (IF IsDrop(y[n - 1]) THEN 1 ELSE 0)

\* What an enumeration consumed alone yields: the records from the first
\* one on, in server order, each Drop numbered by the Drops before it in
\* that same enumeration and carrying its own page's count.
AsWhenAlone(g, y) ==
    /\ g.pc # "none" => (g.fetched = Len(y) /\ g.counter = DropsBefore(y, Len(y) + 1))
    /\ g.pc = "none" => y = <<>>
    /\ \A i \in 1..Len(y) :
          /\ y[i].page = ((i - 1) \div listing.perPage) + 1
          /\ IF IsDrop(y[i])
             THEN /\ y[i].out.id = IntV(i)
                  /\ y[i].out.index = DropsBefore(y, i)
                  /\ y[i].out.total = listing.counts[y[i].page]
             ELSE y[i].out = ListingRecord(i)

\* C18: two enumerations of one client, advanced in any interleaving, each
\* start at the first page with their own counter at 0 and share neither
\* position nor counter: each yields what it would yield consumed alone.
C18_EnumerationsAreIndependent ==
    /\ AsWhenAlone(gen, yielded)
    /\ AsWhenAlone(other.gen, other.yielded)

\* C18 witness: the two generators were advanced in turn; the one resumed
\* last goes on with index 1 although the other yielded a Drop in between.
C18_Witness ==
    /\ Len(yielded) = 2 /\ Len(other.yielded) = 1
    /\ IsDrop(yielded[1]) /\ IsDrop(yielded[2]) /\ IsDrop(other.yielded[1])
    /\ yielded[2].out.index = 1
    /\ other.yielded[1].out.index = 0
    /\ other.gen.pc = "for"

====
